---- MODULE Spec2Model ----
(***************************************************************************)
(* Model of extractor.py: the per-image loop of extract_images_from_pdf    *)
(* and the pixel functions it calls (_open_pillow_image, _resize_mask,     *)
(* _choose_mask_orientation, _save_png_from_base_and_mask).                *)
(*                                                                         *)
(* Two specifications share the pure operators:                            *)
(*   Spec     the loop over pages and images, with its counter, the files  *)
(*            it writes and the log records it emits;                      *)
(*   SpecPix  one call of _save_png_from_base_and_mask on pixel buffers.   *)
(*                                                                         *)
(* Pillow and PyMuPDF are libraries: a payload carries what the decoder    *)
(* returns for it, and each library call that can raise has an outcome     *)
(* drawn as an input.                                                      *)
(***************************************************************************)
EXTENDS Integers, Sequences, FiniteSets, TLC

VARIABLES pages, pno, idx, count, files, log, status, cur,
          px_base, px_mask, px_save_ok, px_out, px_pc

vars == <<pages, pno, idx, count, files, log, status, cur,
          px_base, px_mask, px_save_ok, px_out, px_pc>>

orchVars == <<pages, pno, idx, count, files, log, status, cur>>
pixVars == <<px_base, px_mask, px_save_ok, px_out, px_pc>>

(***************************************************************************)
(* Bounds of the model.                                                    *)
(***************************************************************************)
\* widest pixel buffer (buffers are one row high)
MaxW == 3
\* most images on one page
MaxImgs == 2
\* most pages of a document
MaxPages == 2

(***************************************************************************)
(* Program constants.                                                      *)
(***************************************************************************)
\* SKIP_CONVERSION = ["jpeg"]
SKIP_CONVERSION == {"jpeg"}
\* visible pixels = alpha > 8
VisThreshold == 8
\* coverage_penalty = 200.0
CoveragePenalty == 200
\* visible_ratio < 0.02 or visible_ratio > 0.98, in percent
BandLow == 2
BandHigh == 98
\* 0.2126 R + 0.7152 G + 0.0722 B, in ten-thousandths
WeightR == 2126
WeightG == 7152
WeightB == 722
\* 0.3 * mean_alpha, in ten-thousandths
WeightAlpha == 3000
\* the unit of the weights above
Unit == 10000

(***************************************************************************)
(* Pixel buffers (PIL.Image): a mode, a size and one tuple of band values  *)
(* per pixel, row-major.                                                   *)
(*   "L" <<v>>, "1" <<v>> (0 or 255), "LA" <<v,a>>, "RGB" <<r,g,b>>,       *)
(*   "RGBA" <<r,g,b,a>>, "P" <<palette index>>, "CMYK" <<c,m,y,k>>.        *)
(***************************************************************************)
Img(mode, w, px) == [mode |-> mode, size |-> <<w, 1>>, px |-> px]

\* what Image.open yields for bytes it cannot read
NoImg == [mode |-> "none", size |-> <<0, 0>>, px |-> <<>>]

\* the palette of the "P" buffers of the model
Palette(i) == IF i = 0 THEN <<0, 0, 0>> ELSE <<255, 255, 255>>

\* Pillow's MULDIV255(a, b): a*b/255 rounded
MulDiv255(a, b) ==
    LET t == a * b + 128 IN ((t \div 256) + t) \div 256

Clip8(v) == IF v < 0 THEN 0 ELSE IF v > 255 THEN 255 ELSE v

\* one pixel of mode m as <<r,g,b>> (Image.convert("RGB"))
PixelToRGB(m, p) ==
    CASE m = "RGB"  -> p
      [] m = "RGBA" -> <<p[1], p[2], p[3]>>
      [] m = "L"    -> <<p[1], p[1], p[1]>>
      [] m = "1"    -> <<p[1], p[1], p[1]>>
      [] m = "LA"   -> <<p[1], p[1], p[1]>>
      [] m = "P"    -> Palette(p[1])
      [] m = "CMYK" -> LET nk == 255 - p[4] IN
                       << Clip8(nk - MulDiv255(p[1], nk)),
                          Clip8(nk - MulDiv255(p[2], nk)),
                          Clip8(nk - MulDiv255(p[3], nk)) >>

\* ITU-R 601-2 luma of Image.convert("L"): (19595 R + 38470 G + 7471 B + 0x8000) >> 16
LumaL(rgb) == (19595 * rgb[1] + 38470 * rgb[2] + 7471 * rgb[3] + 32768) \div 65536

\* one pixel of mode m as <<v>> (Image.convert("L"))
PixelToL(m, p) ==
    IF m \in {"L", "1", "LA"} THEN <<p[1]>> ELSE <<LumaL(PixelToRGB(m, p))>>

\* the alpha of one pixel of mode m (255 where the mode has none)
PixelAlpha(m, p) ==
    CASE m = "RGBA" -> p[4]
      [] m = "LA"   -> p[2]
      [] OTHER      -> 255

\* Image.convert(target) for the targets the program uses
Convert(img, target) ==
    [mode |-> target,
     size |-> img.size,
     px   |-> [i \in 1..Len(img.px) |->
                 CASE target = "RGB"  -> PixelToRGB(img.mode, img.px[i])
                   [] target = "L"    -> PixelToL(img.mode, img.px[i])
                   [] target = "RGBA" -> PixelToRGB(img.mode, img.px[i])
                                           \o <<PixelAlpha(img.mode, img.px[i])>>]]

HasAlphaMode(mode) == mode \in {"RGBA", "LA"}

(***************************************************************************)
(* Payloads (bytes objects). A payload carries the buffer the decoder      *)
(* returns for it (NoImg: the decoder raises); kind "none" is Python's     *)
(* None and kind "empty" is b"".                                           *)
(***************************************************************************)
NoneBytes == [kind |-> "none", id |-> <<0, 0>>, img |-> NoImg]
EmptyBytes == [kind |-> "empty", id |-> <<0, 0>>, img |-> NoImg]
Data(id, img) == [kind |-> "data", id |-> id, img |-> img]

\* Python truthiness of a bytes-or-None value
Truthy(b) == b.kind = "data"

(***************************************************************************)
(* _open_pillow_image                                                      *)
(***************************************************************************)
\* Image.open raises on bytes it cannot read
OpenRaises(bytes) == bytes.kind # "data" \/ bytes.img = NoImg

\* CMYK is normalised to RGB, by the profile transform or, when that raises,
\* by convert("RGB"); both give an RGB buffer of the same size (the profile
\* transform's colour values are taken to be those of the direct mapping).
open_pillow_image(bytes) ==
    IF bytes.img.mode = "CMYK" THEN Convert(bytes.img, "RGB") ELSE bytes.img

(***************************************************************************)
(* _resize_mask                                                            *)
(***************************************************************************)
\* Image.resize(size, BILINEAR) of a one-pixel source: every interpolation
\* weight falls on that pixel (the masks of the model are of the base's size
\* or one pixel wide).
Resize(img, size) ==
    [mode |-> img.mode, size |-> size,
     px |-> [i \in 1..(size[1] * size[2]) |-> img.px[1]]]

resize_mask(mask_img, size) ==
    LET m == IF mask_img.mode \notin {"L", "1"} THEN Convert(mask_img, "L")
             ELSE mask_img
    IN IF m.size = size THEN m ELSE Resize(m, size)

(***************************************************************************)
(* _choose_mask_orientation                                                *)
(*                                                                         *)
(* The scores are Python floats; the model computes them exactly, as       *)
(* integers in units of 1/(Unit * ScoreDen(total)), so that the mean over  *)
(* the visible pixels and the mean over all pixels are both whole numbers. *)
(***************************************************************************)
RECURSIVE Gcd(_, _)
Gcd(a, b) == IF b = 0 THEN a ELSE Gcd(b, a % b)

RECURSIVE ScoreDen(_)
\* least common multiple of 1..n
ScoreDen(n) == IF n <= 1 THEN 1
               ELSE LET l == ScoreDen(n - 1) IN (l * n) \div Gcd(l, n)

RECURSIVE SumSeq(_)
SumSeq(s) == IF s = <<>> THEN 0 ELSE Head(s) + SumSeq(Tail(s))

RECURSIVE SumOver(_, _)
\* sum of f[i] for i in the finite set S
SumOver(f, S) == IF S = {} THEN 0
                 ELSE LET i == CHOOSE x \in S : TRUE
                      IN f[i] + SumOver(f, S \ {i})

\* rgba.putalpha(m): the alpha band becomes the mask's values
PutAlpha(rgba, m) ==
    [rgba EXCEPT !.px = [i \in 1..Len(rgba.px) |->
        <<rgba.px[i][1], rgba.px[i][2], rgba.px[i][3], m.px[i][1]>>]]

\* rgba.getchannel("A").getdata()
AlphaOf(rgba) == [i \in 1..Len(rgba.px) |-> rgba.px[i][4]]

\* vis_idx = [i for i, a in enumerate(alpha) if a > 8]
VisIdx(alpha) == {i \in 1..Len(alpha) : alpha[i] > VisThreshold}

\* visible_ratio < 0.02 or visible_ratio > 0.98
OutOfBand(nvis, total) ==
    \/ nvis * 100 < BandLow * total
    \/ nvis * 100 > BandHigh * total

\* Image.eval(mask_gray, lambda p: 255 - p)
Invert(mask) ==
    [mask EXCEPT !.px = [i \in 1..Len(mask.px) |-> <<255 - mask.px[i][1]>>]]

apply_and_score(base_rgb, m) ==
    LET rgba  == PutAlpha(Convert(base_rgb, "RGBA"), m)
        alpha == AlphaOf(rgba)
        total == IF Len(alpha) > 0 THEN Len(alpha) ELSE 1
        den   == ScoreDen(total)
        vis   == VisIdx(alpha)
        nvis  == Cardinality(vis)
        luma  == [i \in 1..Len(alpha) |->
                    WeightR * rgba.px[i][1] + WeightG * rgba.px[i][2]
                      + WeightB * rgba.px[i][3]]
        \* mean_brightness * Unit * den
        bright == IF nvis > 0 THEN SumOver(luma, vis) * (den \div nvis) ELSE 0
        \* 0.3 * mean_alpha * Unit * den
        malpha == WeightAlpha * SumSeq(alpha) * (den \div total)
        penalty == IF OutOfBand(nvis, total)
                   THEN CoveragePenalty * Unit * den ELSE 0
    IN [rgba |-> rgba, score |-> (bright + malpha) - penalty,
        nvis |-> nvis, total |-> total]

\* mutant: a strict comparison, so that a tie goes to the inverted mask
choose_mask_orientation_strict(base_rgb, mask_gray) ==
    LET a == apply_and_score(base_rgb, mask_gray)
        b == apply_and_score(base_rgb, Invert(mask_gray))
    IN IF a.score > b.score THEN a.rgba ELSE b.rgba

\* return rgba_a if score_a >= score_b else rgba_b
choose_mask_orientation(base_rgb, mask_gray) ==
    LET a == apply_and_score(base_rgb, mask_gray)
        b == apply_and_score(base_rgb, Invert(mask_gray))
    IN IF a.score >= b.score THEN a.rgba ELSE b.rgba

(***************************************************************************)
(* _save_png_from_base_and_mask                                            *)
(*                                                                         *)
(* The result: whether the call raised, the buffer handed to save() and    *)
(* the return (or the raising call) it left by.                            *)
(***************************************************************************)
Raised(by) == [raised |-> TRUE, img |-> NoImg, path |-> by]
Saved(img, path, save_ok) ==
    IF save_ok THEN [raised |-> FALSE, img |-> img, path |-> path]
    ELSE Raised("save")

\* if base.mode not in ("RGB", "L"): convert("RGB"); if base.mode == "L": convert("RGB")
EnsureRGB(base) ==
    LET b1 == IF base.mode \notin {"RGB", "L"} THEN Convert(base, "RGB") ELSE base
    IN IF b1.mode = "L" THEN Convert(b1, "RGB") ELSE b1

\* mutant: the early save of a base with its own alpha channel is missing
save_png_no_alpha_shortcut(base_bytes, mask_bytes, save_ok) ==
    IF OpenRaises(base_bytes) THEN Raised("open_base")
    ELSE LET rgb == EnsureRGB(open_pillow_image(base_bytes)) IN
         IF ~Truthy(mask_bytes) THEN Saved(rgb, "no_mask", save_ok)
         ELSE IF OpenRaises(mask_bytes) THEN Raised("open_mask")
         ELSE Saved(choose_mask_orientation(rgb,
                        resize_mask(mask_bytes.img, rgb.size)),
                    "composite", save_ok)

\* mutant: the mask is attached as supplied, without scoring the orientations
save_png_mask_as_is(base_bytes, mask_bytes, save_ok) ==
    IF OpenRaises(base_bytes) THEN Raised("open_base")
    ELSE LET base == open_pillow_image(base_bytes) IN
         IF HasAlphaMode(base.mode) THEN Saved(base, "alpha_base", save_ok)
         ELSE LET rgb == EnsureRGB(base) IN
              IF ~Truthy(mask_bytes) THEN Saved(rgb, "no_mask", save_ok)
              ELSE IF OpenRaises(mask_bytes) THEN Raised("open_mask")
              ELSE Saved(PutAlpha(Convert(rgb, "RGBA"),
                                  resize_mask(mask_bytes.img, rgb.size)),
                         "composite", save_ok)

save_png_from_base_and_mask(base_bytes, mask_bytes, save_ok) ==
    IF OpenRaises(base_bytes) THEN Raised("open_base")
    ELSE LET base == open_pillow_image(base_bytes) IN
         \* If base already has an alpha channel, preserve it
         IF HasAlphaMode(base.mode) THEN Saved(base, "alpha_base", save_ok)
         ELSE LET rgb == EnsureRGB(base) IN
              \* No mask -> opaque PNG
              IF ~Truthy(mask_bytes) THEN Saved(rgb, "no_mask", save_ok)
              ELSE IF OpenRaises(mask_bytes) THEN Raised("open_mask")
              ELSE Saved(choose_mask_orientation(rgb,
                             resize_mask(mask_bytes.img, rgb.size)),
                         "composite", save_ok)

(***************************************************************************)
(* Inputs: the buffers a decoder can return.                               *)
(***************************************************************************)
Widths == 1..MaxW

\* all sequences of length n over S
SeqsOf(S, n) == [1..n -> S]

ModePixels(mode) ==
    CASE mode = "RGB"  -> {<<0, 0, 0>>, <<255, 255, 255>>, <<255, 0, 0>>}
      [] mode = "L"    -> {<<0>>, <<255>>}
      [] mode = "1"    -> {<<0>>, <<255>>}
      [] mode = "P"    -> {<<0>>, <<1>>}
      [] mode = "CMYK" -> {<<0, 0, 0, 0>>, <<0, 0, 0, 255>>}
      [] mode = "RGBA" -> {<<255, 255, 255, 0>>, <<255, 255, 255, 255>>}
      [] mode = "LA"   -> {<<255, 0>>, <<255, 255>>}

\* the modes a base image decodes to
BaseModes == {"RGB", "L", "P", "CMYK", "RGBA", "LA"}

\* intensities of the soft masks, on both sides of the visibility threshold
\* and of its mirror image 255 - 8
MaskVals == {0, 8, 9, 246, 255}

BaseImgs(w) ==
    UNION {{Img(mode, w, px) : px \in SeqsOf(ModePixels(mode), w)} :
           mode \in BaseModes}

\* masks for a base w pixels wide: of its size in mode L or 1, or one pixel
\* wide in mode L or RGB
MaskImgs(w) ==
    {Img("L", w, px) : px \in SeqsOf({<<v>> : v \in MaskVals}, w)}
      \cup {Img("1", w, px) : px \in SeqsOf(ModePixels("1"), w)}
      \cup {Img("L", 1, <<<<v>>>>) : v \in MaskVals}
      \cup {Img("RGB", 1, <<p>>) : p \in {<<255, 0, 0>>, <<255, 255, 255>>}}

\* what the mask_bytes argument can be
MaskArgs(w) ==
    {NoneBytes, EmptyBytes, Data(<<0, 0>>, NoImg)}
      \cup {Data(<<0, 0>>, m) : m \in MaskImgs(w)}

NoResult == [raised |-> FALSE, img |-> NoImg, path |-> "none"]

(***************************************************************************)
(* Specification SpecPix: one call of _save_png_from_base_and_mask.        *)
(***************************************************************************)
OrchIdle ==
    /\ pages = <<>> /\ pno = 1 /\ idx = 1 /\ count = 0
    /\ files = {} /\ log = {} /\ status = "idle"
    /\ cur = [p |-> 0, i |-> 0, strategy |-> "none"]

InitPix ==
    /\ OrchIdle
    /\ \E w \in Widths :
         /\ px_base \in {Data(<<0, 0>>, NoImg)}
                          \cup {Data(<<0, 0>>, b) : b \in BaseImgs(w)}
         /\ px_mask \in MaskArgs(w)
    /\ px_save_ok \in BOOLEAN
    /\ px_out = NoResult
    /\ px_pc = "call"

PixSave ==
    /\ px_pc = "call"
    /\ px_out' = save_png_from_base_and_mask(px_base, px_mask, px_save_ok)
    /\ px_pc' = "ret"
    /\ UNCHANGED <<px_base, px_mask, px_save_ok>>
    /\ UNCHANGED orchVars

NextPix == PixSave

SpecPix == InitPix /\ [][NextPix]_vars

(***************************************************************************)
(* extract_images_from_pdf: the document and what the libraries return.    *)
(***************************************************************************)
\* the extensions doc.extract_image reports, before .lower()
Exts == {"JPEG", "png"}

\* base["ext"].lower()
Lower(e) == CASE e = "JPEG" -> "jpeg" [] e = "PNG" -> "png" [] OTHER -> e

\* an xref of a soft mask; 0 stands for "no soft mask" (0 or None in Python)
MaskXrefs == {0, 7}

\* documents: the number of images on each page
RECURSIVE SumCounts(_)
SumCounts(s) == IF s = <<>> THEN 0 ELSE Head(s) + SumCounts(Tail(s))
Documents ==
    {s \in UNION {[1..n -> 0..MaxImgs] : n \in 0..MaxPages} :
        SumCounts(s) <= MaxImgs}

TotalImages == SumCounts(pages)

\* the buffers Pillow decodes the base payloads of the documents to
SampleBases ==
    { Img("RGB", 1, << <<255, 255, 255>> >>),
      Img("L", 1, << <<255>> >>),
      Img("P", 1, << <<1>> >>),
      Img("CMYK", 1, << <<0, 0, 0, 0>> >>),
      Img("RGBA", 1, << <<255, 255, 255, 0>> >>),
      Img("LA", 1, << <<255, 0>> >>),
      NoImg }

\* what doc.extract_image(smask_xref)["image"] gives: it raises, or returns bytes
MaskExtracts ==
    { [raised |-> TRUE, bytes |-> NoneBytes],
      [raised |-> FALSE, bytes |-> EmptyBytes],
      [raised |-> FALSE, bytes |-> Data(<<0, 0>>, NoImg)],
      [raised |-> FALSE, bytes |-> Data(<<0, 0>>, Img("L", 1, << <<255>> >>))] }

\* fitz.Pixmap(doc, xref).alpha: the probe raises, or reports alpha or none
Probes == {"raise", "alpha", "opaque"}

\* the PNG a Pixmap with alpha is saved as
PixmapPng == Img("RGBA", 1, << <<255, 255, 255, 0>> >>)

(***************************************************************************)
(* Files and log records.                                                  *)
(***************************************************************************)
\* mutant: the raw bytes go under the PNG name
raw_name_png(p, i, ext) == <<p, i, "png">>

\* f"image_{pno + 1}_{idx + 1}.{ext}" (pno and idx of the model count from 1)
raw_name(p, i, ext) == <<p, i, ext>>
\* os.path.splitext(raw_path)[0] + ".png"
png_name(p, i, ext) == <<p, i, "png">>

\* mutant: an empty file is written in place of the payload
RawFile_empty(bytes) == [fmt |-> "raw", data |-> <<0, 0>>, img |-> NoImg]

\* f.write(base_bytes): a raw file is identified by the payload written
RawFile(bytes) == [fmt |-> "raw", data |-> bytes.id, img |-> NoImg]
PngFile(img) == [fmt |-> "png", data |-> <<0, 0>>, img |-> img]
\* open(path, "wb") and write: the file is created or replaced
WriteFile(fs, name, content) ==
    {f \in fs : f.name # name} \cup {[name |-> name, content |-> content]}

LogRec(p, i, level, msg) == [p |-> p, i |-> i, level |-> level, msg |-> msg]

(***************************************************************************)
(* The decisions of the loop body.                                         *)
(***************************************************************************)
\* _tuple_has_mask: bool(img_tuple[1])
tuple_has_mask(it1) == it1 # 0

\* smask_xref = base.get("smask") or (it[1] if len(it) > 1 else None)
smask_xref_of(dict_smask, it1) == IF dict_smask # 0 THEN dict_smask ELSE it1

\* pix_alpha = False; try: pix_alpha = bool(probe.alpha); except: pass
pix_alpha_of(probe) == probe = "alpha"

\* mutant: the internal alpha is not looked at before keeping the original
Dispatch_ignores_alpha(ext, tuple_mask, smask_xref, pix_alpha) ==
    IF ext \in SKIP_CONVERSION /\ ~(tuple_mask \/ smask_xref # 0)
      THEN "PassThroughRaw"
    ELSE IF tuple_mask \/ smask_xref # 0 THEN "CompositeWithMask"
    ELSE IF pix_alpha THEN "CompositeWithInternalAlpha"
    ELSE "OpaqueConvert"

\* the branch the loop body takes: Case A, else Case B, Case C, Case D
Dispatch(ext, tuple_mask, smask_xref, pix_alpha) ==
    IF ext \in SKIP_CONVERSION /\ ~(tuple_mask \/ smask_xref # 0 \/ pix_alpha)
      THEN "PassThroughRaw"
    ELSE IF tuple_mask \/ smask_xref # 0 THEN "CompositeWithMask"
    ELSE IF pix_alpha THEN "CompositeWithInternalAlpha"
    ELSE "OpaqueConvert"

\* Case D: _open_pillow_image, then to RGB unless RGB, RGBA or LA, then save
opaque_convert(base_bytes, save_ok) ==
    IF OpenRaises(base_bytes) THEN Raised("open_base")
    ELSE LET b0 == open_pillow_image(base_bytes)
             b1 == IF b0.mode \notin {"RGB", "L", "RGBA", "LA"}
                   THEN Convert(b0, "RGB") ELSE b0
             b2 == IF b1.mode = "L" THEN Convert(b1, "RGB") ELSE b1
         IN Saved(b2, "opaque", save_ok)

\* Case C: a Pixmap with alpha is brought to RGBA and saved
pixmap_png(pix_ok, save_ok) ==
    IF ~pix_ok THEN Raised("pixmap") ELSE Saved(PixmapPng, "pixmap", save_ok)

(***************************************************************************)
(* Specification Spec: the loops of extract_images_from_pdf.               *)
(*                                                                         *)
(* pc       "loop": at the header of the inner for statement;              *)
(*          "body": an image tuple was taken, the loop body is to run;     *)
(*          "done": after the final log line;                              *)
(*          "raised": an exception left extract_images_from_pdf.           *)
(*          (the variable is named status)                                 *)
(* cur      the image of the running iteration: what the libraries         *)
(*          returned for it, the branch taken and how the branch ended.    *)
(***************************************************************************)
PixIdle ==
    /\ px_base = NoneBytes /\ px_mask = NoneBytes /\ px_save_ok = TRUE
    /\ px_out = NoResult /\ px_pc = "idle"

NoMask == [raised |-> FALSE, bytes |-> NoneBytes]

NoCur ==
    [p |-> 0, i |-> 0, ext |-> "", tuple_mask |-> FALSE, smask_xref |-> 0,
     pix_alpha |-> FALSE, mask |-> NoMask, base |-> NoneBytes,
     strategy |-> "none", res |-> NoResult]

Init ==
    /\ pages \in Documents
    /\ pno = 1 /\ idx = 0
    /\ count = 0
    /\ files = {} /\ log = {}
    /\ status = "loop"
    /\ cur = NoCur
    /\ PixIdle

\* for idx, it in enumerate(page.get_images(full=True)): the next tuple
NextImage ==
    /\ status = "loop"
    /\ pno <= Len(pages)
    /\ idx < pages[pno]
    /\ idx' = idx + 1
    /\ status' = "body"
    /\ cur' = [NoCur EXCEPT !.p = pno, !.i = idx + 1]
    /\ UNCHANGED <<pages, pno, count, files, log>>
    /\ UNCHANGED pixVars

\* the log lines written before the branch: the warning of a failed mask
\* extraction and the "Found image" line
FrontLog(mask) ==
    (IF mask.raised THEN {LogRec(pno, idx, "warning", "mask_unavailable")}
     ELSE {})
      \cup {LogRec(pno, idx, "info", "found")}

\* mutant: the except clause leaves the loop body before the counter
count_after_try_skips_fallback(r) == IF r.raised THEN count ELSE count + 1

\* count += 1 after the try statement, whichever way it ended
count_after_try(r) == count + 1

\* the end of the try statement: the PNG is there, or the except clause
\* writes the raw bytes and logs the error; then count += 1.
\* (A save() that raises leaves no file: Pillow removes the file it created.)
EndTry(f, strategy, r, okmsg) ==
    /\ files' =
         IF ~r.raised
           THEN WriteFile(files, png_name(pno, idx, f.ext), PngFile(r.img))
         ELSE WriteFile(files, raw_name(pno, idx, f.ext), RawFile(f.base))
    /\ log' = log \cup FrontLog(f.mask)
                \cup {IF ~r.raised THEN LogRec(pno, idx, "info", okmsg)
                      ELSE LogRec(pno, idx, "error", "failed_raw_saved")}
    /\ count' = count_after_try(r)
    /\ status' = "loop"
    /\ cur' = [f EXCEPT !.strategy = strategy, !.res = r]
    /\ UNCHANGED <<pages, pno, idx>>

\* what is extracted for the soft mask: nothing is tried without an xref
MaskExtractsFor(smask_xref) ==
    IF smask_xref # 0 THEN MaskExtracts ELSE {NoMask}

\* the local variables of the loop body before the branch, for the image at
\* (pno, idx): ext, tuple_mask, smask_xref, pix_alpha, mask_bytes, base_bytes
Front(e, it1, dsm, probe, m, b) ==
    [p |-> pno, i |-> idx, ext |-> Lower(e),
     tuple_mask |-> tuple_has_mask(it1),
     smask_xref |-> smask_xref_of(dsm, it1),
     pix_alpha |-> pix_alpha_of(probe),
     mask |-> m, base |-> Data(<<pno, idx>>, b),
     strategy |-> "none", res |-> NoResult]

\* the branch taken for what the libraries returned
DispatchOf(e, it1, dsm, probe) ==
    Dispatch(Lower(e), tuple_has_mask(it1), smask_xref_of(dsm, it1),
             pix_alpha_of(probe))

\* doc.extract_image(xref) raises (or its result lacks "image" or "ext"):
\* the statement is outside every try, the exception leaves the function
ExtractBaseRaises ==
    /\ status = "body"
    /\ status' = "raised"
    /\ cur' = [cur EXCEPT !.strategy = "raised"]
    /\ UNCHANGED <<pages, pno, idx, count, files, log>>
    /\ UNCHANGED pixVars

\* Case A: the raw bytes are written under the raw name; count += 1; continue
PassThroughRaw ==
    /\ status = "body"
    /\ \E e \in Exts, it1 \in MaskXrefs, dsm \in MaskXrefs, probe \in Probes :
         /\ DispatchOf(e, it1, dsm, probe) = "PassThroughRaw"
         /\ \E m \in MaskExtractsFor(smask_xref_of(dsm, it1)), b \in SampleBases :
              LET f == Front(e, it1, dsm, probe, m, b) IN
              /\ files' = WriteFile(files, raw_name(pno, idx, f.ext),
                                    RawFile(f.base))
              /\ log' = log \cup FrontLog(f.mask)
                          \cup {LogRec(pno, idx, "info", "saved_original")}
              /\ count' = count + 1
              /\ status' = "loop"
              /\ cur' = [f EXCEPT !.strategy = "PassThroughRaw"]
    /\ UNCHANGED <<pages, pno, idx>>
    /\ UNCHANGED pixVars

\* Case B: _save_png_from_base_and_mask(base_bytes, mask_bytes, png_path)
CompositeWithMask ==
    /\ status = "body"
    /\ \E e \in Exts, it1 \in MaskXrefs, dsm \in MaskXrefs, probe \in Probes :
         /\ DispatchOf(e, it1, dsm, probe) = "CompositeWithMask"
         /\ \E m \in MaskExtractsFor(smask_xref_of(dsm, it1)), b \in SampleBases :
            \E save_ok \in BOOLEAN :
              LET f == Front(e, it1, dsm, probe, m, b)
                  r == save_png_from_base_and_mask(f.base, m.bytes, save_ok)
              IN
              /\ ~save_ok => (r.raised /\ r.path = "save")
              /\ EndTry(f, "CompositeWithMask", r, "saved_mask_merge")
    /\ UNCHANGED pixVars

\* Case C: fitz.Pixmap(doc, xref), brought to RGBA, pix.save(png_path)
CompositeWithInternalAlpha ==
    /\ status = "body"
    /\ \E e \in Exts, it1 \in MaskXrefs, dsm \in MaskXrefs, probe \in Probes :
         /\ DispatchOf(e, it1, dsm, probe) = "CompositeWithInternalAlpha"
         /\ \E m \in MaskExtractsFor(smask_xref_of(dsm, it1)), b \in SampleBases :
            \E pix_ok \in BOOLEAN, save_ok \in BOOLEAN :
              LET f == Front(e, it1, dsm, probe, m, b)
                  r == pixmap_png(pix_ok, save_ok)
              IN
              /\ ~save_ok => (r.raised /\ r.path = "save")
              /\ EndTry(f, "CompositeWithInternalAlpha", r, "saved_pixmap")
    /\ UNCHANGED pixVars

\* Case D: decode, convert, base_img.save(png_path, "PNG")
OpaqueConvert ==
    /\ status = "body"
    /\ \E e \in Exts, it1 \in MaskXrefs, dsm \in MaskXrefs, probe \in Probes :
         /\ DispatchOf(e, it1, dsm, probe) = "OpaqueConvert"
         /\ \E m \in MaskExtractsFor(smask_xref_of(dsm, it1)), b \in SampleBases :
            \E save_ok \in BOOLEAN :
              LET f == Front(e, it1, dsm, probe, m, b)
                  r == opaque_convert(f.base, save_ok)
              IN
              /\ ~save_ok => (r.raised /\ r.path = "save")
              /\ EndTry(f, "OpaqueConvert", r, "saved_opaque")
    /\ UNCHANGED pixVars

\* the inner loop is exhausted and a page is left: the next page
NextPage ==
    /\ status = "loop"
    /\ pno < Len(pages)
    /\ idx >= pages[pno]
    /\ pno' = pno + 1
    /\ idx' = 0
    /\ UNCHANGED <<pages, count, files, log, status, cur>>
    /\ UNCHANGED pixVars

\* both loops are exhausted: "Extraction complete! {count} images saved"
Finish ==
    /\ status = "loop"
    /\ \/ Len(pages) = 0
       \/ pno = Len(pages) /\ idx >= pages[pno]
    /\ status' = "done"
    /\ log' = log \cup {LogRec(0, 0, "info", <<"complete", count>>)}
    /\ UNCHANGED <<pages, pno, idx, count, files, cur>>
    /\ UNCHANGED pixVars

Next ==
    \/ NextImage
    \/ ExtractBaseRaises
    \/ PassThroughRaw
    \/ CompositeWithMask
    \/ CompositeWithInternalAlpha
    \/ OpaqueConvert
    \/ NextPage
    \/ Finish

Spec == Init /\ [][Next]_vars

(***************************************************************************)
(* Claims checked under Spec.                                              *)
(***************************************************************************)
\* the files written for the image at (p, i)
FilesOf(p, i) == {f \in files : f.name[1] = p /\ f.name[2] = i}

\* the loop body ran to its end on the image cur describes
Processed == cur.strategy \in {"PassThroughRaw", "CompositeWithMask",
                               "CompositeWithInternalAlpha", "OpaqueConvert"}

\* the images the loop body has run to its end on
ImagesDone ==
    SumCounts(SubSeq(pages, 1, pno - 1))
      + (IF status \in {"body", "raised"} THEN idx - 1 ELSE idx)

\* the images of the document, as <<page, index>>
AllImages == UNION {{<<p, i>> : i \in 1..pages[p]} : p \in 1..Len(pages)}

\* C1: no exception raised while one image is processed leaves the run, and
\* a run that ends has gone through every image of the document.
C1_NoExceptionEscapes ==
    /\ status # "raised"
    /\ status = "done" =>
         \A pi \in AllImages : LogRec(pi[1], pi[2], "info", "found") \in log

\* C2: the branch taken is the first match of: mask reference (tuple slot or
\* dict field) -> CompositeWithMask; internal alpha ->
\* CompositeWithInternalAlpha; allow-listed extension -> PassThroughRaw;
\* otherwise OpaqueConvert.
C2_DispatchPrecedence ==
    Processed =>
      cur.strategy =
        IF cur.tuple_mask \/ cur.smask_xref # 0 THEN "CompositeWithMask"
        ELSE IF cur.pix_alpha THEN "CompositeWithInternalAlpha"
        ELSE IF cur.ext \in SKIP_CONVERSION THEN "PassThroughRaw"
        ELSE "OpaqueConvert"

\* an allow-listed image with a mask reference in the dict field only and
\* with internal alpha took the mask-composite branch
C2_Witness ==
    /\ cur.strategy = "CompositeWithMask"
    /\ ~cur.tuple_mask /\ cur.smask_xref # 0
    /\ cur.pix_alpha
    /\ cur.ext \in SKIP_CONVERSION

\* C5: an image without mask reference, without internal alpha and with an
\* allow-listed extension gets one file, image_<p>_<i>.<ext>, holding its raw
\* payload; nothing is decoded or saved as PNG for it, and the file stays
\* as it is while the other images are processed.
C5_PassThroughExact ==
    /\ (Processed /\ ~cur.tuple_mask /\ cur.smask_xref = 0 /\ ~cur.pix_alpha
          /\ cur.ext \in SKIP_CONVERSION)
         => /\ FilesOf(cur.p, cur.i) =
                 {[name |-> <<cur.p, cur.i, cur.ext>>,
                   content |-> [fmt |-> "raw", data |-> cur.base.id,
                                img |-> NoImg]]}
            /\ cur.res = NoResult
            /\ LogRec(cur.p, cur.i, "info", "saved_original") \in log
    /\ \A l \in log :
         l.msg = "saved_original" =>
           \E e \in SKIP_CONVERSION :
             FilesOf(l.p, l.i) =
               {[name |-> <<l.p, l.i, e>>,
                 content |-> [fmt |-> "raw", data |-> <<l.p, l.i>>,
                              img |-> NoImg]]}

\* a run ended in which the second image of a page was passed through raw
C5_Witness ==
    /\ status = "done"
    /\ cur.strategy = "PassThroughRaw"
    /\ cur.i = 2
    /\ Cardinality(files) = 2

\* C8: the counter is the number of images the loop body has gone through,
\* and a run that ends reports the number of images of the document.
C8_CountIsImages ==
    /\ status \in {"loop", "body", "done"} => count = ImagesDone
    /\ status = "done" =>
         /\ count = TotalImages
         /\ LogRec(0, 0, "info", <<"complete", TotalImages>>) \in log

\* a run ended after a raw fallback and a pass-through, both counted
C8_Witness ==
    /\ status = "done"
    /\ count = 2
    /\ \E l \in log : l.level = "error"
    /\ \E l \in log : l.msg = "saved_original"

CurPng ==
    {f \in FilesOf(cur.p, cur.i) : f.content.fmt = "png"}

\* what Pillow decodes the base payload of cur to, after _open_pillow_image
CurDecoded == open_pillow_image(cur.base)

C7_OpaqueIsAlphaFree ==
    (Processed /\ cur.strategy = "OpaqueConvert" /\ ~cur.res.raised)
      => /\ CurPng # {}
         /\ \A f \in CurPng :
              /\ ~HasAlphaMode(f.content.img.mode)
              /\ f.content.img.size = cur.base.img.size

(***************************************************************************)
(* Claims checked under SpecPix.                                           *)
(***************************************************************************)
\* the base as _save_png_from_base_and_mask decodes it, and as it hands it
\* to _choose_mask_orientation
PixDecoded == open_pillow_image(px_base)
PixRGB == EnsureRGB(PixDecoded)

\* the mask as handed to _choose_mask_orientation
PixMask == resize_mask(px_mask.img, PixRGB.size)

\* the call returned after compositing base and mask
PixComposited == px_pc = "ret" /\ ~px_out.raised /\ px_out.path = "composite"

\* the two candidates of _choose_mask_orientation
PixAsIs == apply_and_score(PixRGB, PixMask)
PixInverted == apply_and_score(PixRGB, Invert(PixMask))

\* the alpha band of the saved buffer is the mask as supplied / complemented
OutAlphaIsMask ==
    \A i \in 1..Len(px_out.img.px) : px_out.img.px[i][4] = PixMask.px[i][1]
OutAlphaIsComplement ==
    \A i \in 1..Len(px_out.img.px) :
        px_out.img.px[i][4] = 255 - PixMask.px[i][1]

\* C3 as claimed: when one orientation has its visible ratio outside
\* [0.02, 0.98] and the other inside, the one inside is chosen.
C3_PenaltyDominates ==
    PixComposited =>
      /\ (OutOfBand(PixAsIs.nvis, PixAsIs.total)
            /\ ~OutOfBand(PixInverted.nvis, PixInverted.total))
           => OutAlphaIsComplement
      /\ (OutOfBand(PixInverted.nvis, PixInverted.total)
            /\ ~OutOfBand(PixAsIs.nvis, PixAsIs.total))
           => OutAlphaIsMask

\* C4: the as-supplied candidate is returned exactly when its score is at
\* least the inverted candidate's; the output alpha is then the mask as
\* supplied, and its complement otherwise.
C4_HigherScoreWinsTieAsIs ==
    PixComposited =>
      /\ PixAsIs.score >= PixInverted.score
           => (px_out.img = PixAsIs.rgba /\ OutAlphaIsMask)
      /\ PixAsIs.score < PixInverted.score
           => (px_out.img = PixInverted.rgba /\ OutAlphaIsComplement)

\* two candidates with equal scores, the mask kept as supplied
C4_Witness ==
    /\ PixComposited
    /\ PixAsIs.score = PixInverted.score
    /\ OutAlphaIsMask
    /\ Len(px_out.img.px) > 1

\* C10 as claimed: with mask bytes at hand that decode, the saved buffer is
\* RGBA and its alpha band is the resampled mask, as supplied or complemented,
\* for every mode the base decodes to.
C10_AlphaIsMaskForEveryBase ==
    (px_pc = "ret" /\ ~px_out.raised /\ Truthy(px_mask) /\ ~OpenRaises(px_mask))
      => /\ px_out.img.mode = "RGBA"
         /\ px_out.img.size = PixDecoded.size
         /\ OutAlphaIsMask \/ OutAlphaIsComplement

\* C10 as amended: with non-empty mask bytes and a base that decodes to a
\* mode other than RGBA and LA, the saved buffer is RGBA, of the base's size,
\* with the base's colours and with the resampled mask as alpha band, as
\* supplied when its score is at least the complement's and complemented
\* otherwise; a base that decodes to RGBA or LA is saved as decoded, with its
\* own alpha, and empty mask bytes give the base in RGB.
C10_AlphaIsMaskUnlessBaseHasAlpha ==
    (px_pc = "ret" /\ ~px_out.raised /\ px_mask.kind # "none")
      => IF HasAlphaMode(PixDecoded.mode) THEN px_out.img = PixDecoded
         ELSE IF ~Truthy(px_mask) THEN px_out.img = PixRGB
         ELSE /\ px_out.img.mode = "RGBA"
              /\ px_out.img.size = PixDecoded.size
              /\ Len(px_out.img.px) = PixDecoded.size[1] * PixDecoded.size[2]
              /\ Len(PixMask.px) = Len(px_out.img.px)
              /\ \A i \in 1..Len(px_out.img.px) :
                   /\ <<px_out.img.px[i][1], px_out.img.px[i][2],
                        px_out.img.px[i][3]>> = PixRGB.px[i]
                   /\ px_out.img.px[i][4] =
                        IF PixAsIs.score >= PixInverted.score
                        THEN PixMask.px[i][1]
                        ELSE 255 - PixMask.px[i][1]

\* an RGB mask one pixel wide was brought to the size of a wider palette
\* base and its complement became the alpha band
C10_Witness ==
    /\ PixComposited
    /\ px_mask.img.mode = "RGB"
    /\ px_mask.img.size # px_out.img.size
    /\ PixDecoded.mode = "P"
    /\ OutAlphaIsComplement

====
